---- MODULE Spec2Model ----
(***************************************************************************)
(* Car park booking ledger: the SQLite table `bookings`, the ledger        *)
(* functions of database.ts and the HTTP handlers of server.ts.            *)
(*                                                                         *)
(* Strings that the code inspects character by character (dates, error    *)
(* messages) are sequences of one-character strings.  Employee fields are  *)
(* only tested for truthiness and copied, so they are plain strings.       *)
(***************************************************************************)
EXTENDS Integers, Sequences, FiniteSets, TLC

\* ------------------------------------------------------------------ bounds

\* Largest id the model lets AUTOINCREMENT hand out (caps the id counter).
MaxId == 2

\* busy_timeout, counted in sleeps of the busy handler: the number of times a
\* statement that finds the database locked sleeps and tries again before it
\* gives up with SQLITE_BUSY.
BusyTimeout == 2

\* ------------------------------------------------------------- JS values

Undefined == "__undefined__"
Null == "__null__"

\* ------------------------------------------------------- string literals

MsgInvalidDate == <<"D","a","t","e"," ","m","u","s","t"," ","b","e"," ","i","n"," ","Y","Y","Y","Y","-","M","M","-","D","D"," ","f","o","r","m","a","t">>
MsgInvalidTime == <<"I","n","v","a","l","i","d"," ","t","i","m","e"," ","v","a","l","u","e">>
MsgBookedPrefix == <<"D","a","t","e"," ">>
MsgBookedSuffix == <<" ","i","s"," ","a","l","r","e","a","d","y"," ","b","o","o","k","e","d">>
MsgDateRequired == <<"D","a","t","e"," ","i","s"," ","r","e","q","u","i","r","e","d">>
PatInvalidDate == <<"I","n","v","a","l","i","d"," ","d","a","t","e"," ","f","o","r","m","a","t">>
PatAlreadyBooked == <<"a","l","r","e","a","d","y"," ","b","o","o","k","e","d">>
MsgFailedCreate == <<"F","a","i","l","e","d"," ","t","o"," ","c","r","e","a","t","e"," ","b","o","o","k","i","n","g">>
MsgNotFound == <<"B","o","o","k","i","n","g"," ","n","o","t"," ","f","o","u","n","d">>
IsoTimeSuffix == <<"T","0","0",":","0","0",":","0","0",".","0","0","0","Z">>

\* The characters the model's strings use, in ascending code-point order.
Alphabet == <<" ","-",".","/","0","1","2","3","4","5","6","7","8","9",":","A","B","C","D","E","F","G","H","I","J","K","L","M","N","O","P","Q","R","S","T","U","V","W","X","Y","Z","a","b","c","d","e","f","g","h","i","j","k","l","m","n","o","p","q","r","s","t","u","v","w","x","y","z">>

Digits == <<"0","1","2","3","4","5","6","7","8","9">>

CharCode(c) == CHOOSE i \in 1..Len(Alphabet) : Alphabet[i] = c

IsDigit(c) == \E i \in 1..Len(Digits) : Digits[i] = c

DigitVal(c) == (CHOOSE i \in 1..Len(Digits) : Digits[i] = c) - 1

\* String.prototype.startsWith
StartsWith(s, prefix) ==
    /\ Len(prefix) <= Len(s)
    /\ SubSeq(s, 1, Len(prefix)) = prefix

\* String.prototype.includes
Includes(s, pat) ==
    \E i \in 1..(Len(s) - Len(pat) + 1) : SubSeq(s, i, i + Len(pat) - 1) = pat

\* memcmp order of two TEXT values (SQLite BINARY collation)
TextLess(a, b) ==
    \E i \in 1..(Len(b)) :
        /\ \A j \in 1..(i - 1) : j <= Len(a) /\ a[j] = b[j]
        /\ \/ i = Len(a) + 1
           \/ i <= Len(a) /\ CharCode(a[i]) < CharCode(b[i])

\* --------------------------------------------------- date validation

\* /^\d{4}-\d{2}-\d{2}$/.test(date)
dateRegexTest(date) ==
    /\ Len(date) = 10
    /\ \A i \in {1, 2, 3, 4, 6, 7, 9, 10} : IsDigit(date[i])
    /\ date[5] = "-"
    /\ date[8] = "-"

NumberOf(s) ==
    LET RECURSIVE val(_)
        val(n) == IF n = 0 THEN 0 ELSE 10 * val(n - 1) + DigitVal(s[n])
    IN val(Len(s))

\* Day number (days since 1970-01-01) of a proleptic Gregorian date.
DaysFromCivil(y, m, d) ==
    LET yy == IF m <= 2 THEN y - 1 ELSE y
        era == yy \div 400
        yoe == yy - era * 400
        mp == IF m > 2 THEN m - 3 ELSE m + 9
        doy == (153 * mp + 2) \div 5 + d - 1
        doe == yoe * 365 + yoe \div 4 - yoe \div 100 + doy
    IN era * 146097 + doe - 719468

\* The calendar date of a day number.
CivilFromDays(z0) ==
    LET z == z0 + 719468
        era == z \div 146097
        doe == z - era * 146097
        yoe == (doe - doe \div 1460 + doe \div 36524 - doe \div 146096) \div 365
        doy == doe - (365 * yoe + yoe \div 4 - yoe \div 100)
        mp == (5 * doy + 2) \div 153
        d == doy - (153 * mp + 2) \div 5 + 1
        m == IF mp < 10 THEN mp + 3 ELSE mp - 9
        y == yoe + era * 400 + (IF m <= 2 THEN 1 ELSE 0)
    IN [year |-> y, month |-> m, day |-> d]

NaN == [nan |-> TRUE]

\* new Date(date) for a date-only ISO string (the regex has passed): the time
\* value, UTC, counted in whole days (it is always a UTC midnight here, and the
\* millisecond count does not fit 32-bit integers).  A month outside 01..12 or
\* a day outside 01..31
\* gives an invalid Date; a day past the end of the month (but <= 31) rolls
\* over into the next month, as V8's MakeDay does.
NewDate(date) ==
    LET y == NumberOf(SubSeq(date, 1, 4))
        m == NumberOf(SubSeq(date, 6, 7))
        d == NumberOf(SubSeq(date, 9, 10))
    IN IF m \notin 1..12 \/ d \notin 1..31
       THEN NaN
       ELSE [nan |-> FALSE,
             time |-> DaysFromCivil(y, m, 1) + d - 1]

Pad(n, width) ==
    LET RECURSIVE digs(_, _)
        digs(v, w) == IF w = 0 THEN <<>>
                      ELSE Append(digs(v \div 10, w - 1), Digits[(v % 10) + 1])
    IN digs(n, width)

\* Date.prototype.toISOString of a valid time value at UTC midnight, years
\* 0000..9999.
toISOString(time) ==
    LET c == CivilFromDays(time)
    IN Pad(c.year, 4) \o <<"-">> \o Pad(c.month, 2) \o <<"-">> \o Pad(c.day, 2)
       \o IsoTimeSuffix

\* isValidDateFormat: "true", "false", or "RangeError" when toISOString is
\* called on an invalid Date and throws.
isValidDateFormat(date) ==
    IF ~dateRegexTest(date) THEN "false"
    ELSE LET parsedDate == NewDate(date)
         IN IF parsedDate.nan THEN "RangeError"
            ELSE IF StartsWith(toISOString(parsedDate.time), date) THEN "true"
            ELSE "false"

\* ------------------------------------------------------------ inputs

D20240229 == <<"2","0","2","4","-","0","2","-","2","9">>
D20251209 == <<"2","0","2","5","-","1","2","-","0","9">>
D20251210 == <<"2","0","2","5","-","1","2","-","1","0">>

\* Dates that pass isValidDateFormat.
ValidDates == {D20240229, D20251209, D20251210}

\* Dates that do not: wrong separators, a day past the end of the month,
\* month 13.
InvalidDates ==
    { <<"2","0","2","5","/","1","2","/","0","3">>,
      <<"2","0","2","5","-","0","2","-","3","0">>,
      <<"2","0","2","5","-","1","3","-","0","1">> }

EmptyString == <<>>

\* req.body.date of a POST: any date string, or the empty string.
PostDates == ValidDates \cup InvalidDates \cup {EmptyString}

\* The date of a DELETE or of a getBookingByDate.
KeyDates == ValidDates

\* employee_name / employee_email of a request: supplied, omitted, empty.
EmployeeInputs ==
    { [employee_name |-> "Ann", employee_email |-> "ann@example.com"],
      [employee_name |-> Undefined, employee_email |-> ""],
      [employee_name |-> "", employee_email |-> Undefined] }

\* The employee fields of the callers of the race: distinct names, no email.
RaceEmployeeInputs ==
    { [employee_name |-> "User 1", employee_email |-> Undefined],
      [employee_name |-> "User 2", employee_email |-> Undefined],
      [employee_name |-> "User 3", employee_email |-> Undefined] }

\* Values CURRENT_TIMESTAMP can take when a row is inserted.  The code never
\* reads created_at, so one representative value stands for the clock.
Timestamps == {"2025-11-01 09:00:00"}

\* The callers of the server specification, and those of the race.
Callers == {"c1", "c2"}

Procs == Callers \cup {"c3"}

NoProc == "none"

NoReq == [op |-> "none"]

\* `undefined` where a Booking is expected
NoBooking == [id |-> 0]

VARIABLES
    rows,      \* committed rows of table bookings
    seq,       \* sqlite_sequence.seq of bookings: the largest rowid ever used
    writer,    \* the connection holding the database write lock, or NoProc
    wal,       \* rows inserted by the open write transaction, not yet committed
    pc,        \* each caller's position
    req,       \* each caller's request while it is in flight
    booking,   \* createBooking's local `booking`
    resp,      \* the outcome of the call that completed last
    waited     \* sleeps of the busy handler during each caller's statement

vars == <<rows, seq, writer, wal, pc, req, booking, resp, waited>>

\* What a statement outside the write transaction reads (journal_mode = WAL):
\* the committed rows, and with the isolation lost the uncommitted ones too.
SnapshotUncommitted == rows \cup wal

Snapshot == rows

\* ------------------------------------------------------------ storage

\* The rowid AUTOINCREMENT gives the next row: one more than the largest rowid
\* the table has ever held.
MaxOf(S) == CHOOSE m \in S : \A n \in S : n <= m

\* The rowid of a plain INTEGER PRIMARY KEY: one more than the largest rowid
\* now in the table.
NextRowidWithoutAutoincrement(table) == MaxOf({r.id : r \in table} \cup {0}) + 1

NextRowid(table) == MaxOf({r.id : r \in table} \cup {seq}) + 1

\* The table without its UNIQUE constraint on date.
UniqueViolationDropped(table, date) == FALSE

\* UNIQUE(date): does inserting `date` into `table` violate the constraint?
UniqueViolation(table, date) == \E r \in table : r.date = date

\* employee_name ?? null
OrNullIfOmitted(v) == IF v = Undefined THEN Null ELSE v

\* employee_name || null
OrNull(v) == IF v = Undefined \/ v = "" THEN Null ELSE v

\* The row INSERT ... VALUES (?, ?, ?) adds: the AUTOINCREMENT rowid, the three
\* bound values, DEFAULT CURRENT_TIMESTAMP.
NewRow(table, input, ts) ==
    [id |-> NextRowid(table),
     date |-> input.date,
     employee_name |-> OrNull(input.employee_name),
     employee_email |-> OrNull(input.employee_email),
     created_at |-> ts]

\* SELECT * FROM bookings, its WHERE clause lost: the first row of the table.
getBookingByIdFirstRow(table, id) ==
    IF table = {} THEN NoBooking
    ELSE CHOOSE r \in table : \A o \in table : r.id <= o.id

\* SELECT * FROM bookings WHERE id = ?
getBookingById(table, id) ==
    IF \E r \in table : r.id = id
    THEN CHOOSE r \in table : r.id = id
    ELSE NoBooking

\* SELECT * FROM bookings WHERE date = ?  (the first matching row)
getBookingByDate(table, date) ==
    LET hits == {r \in table : r.date = date}
    IN IF hits = {} THEN [found |-> FALSE]
       ELSE [found |-> TRUE,
             row |-> CHOOSE r \in hits : \A o \in hits : r.id <= o.id]

\* Rows in rowid order, as a SELECT without ORDER BY returns them.
RowBeforeByRowid(a, b) == a.id < b.id

\* Sort key of ORDER BY date ASC; rows with equal dates keep rowid order.
RowBefore(a, b) ==
    \/ TextLess(a.date, b.date)
    \/ a.date = b.date /\ a.id < b.id

\* SELECT * FROM bookings ORDER BY date ASC
getAllBookings(table) ==
    LET RECURSIVE sorted(_)
        sorted(S) ==
            IF S = {} THEN <<>>
            ELSE LET first == CHOOSE r \in S : \A o \in S \ {r} : RowBefore(r, o)
                 IN <<first>> \o sorted(S \ {first})
    IN sorted(table)

\* DELETE FROM bookings, its WHERE clause lost.
DeleteEveryRow(table, date) == {}

\* DELETE FROM bookings WHERE date = ?
DeleteWhereDate(table, date) == {r \in table : r.date # date}

\* info.changes of that DELETE
Changes(table, date) == Cardinality({r \in table : r.date = date})

\* ------------------------------------------------------ call outcomes

Returned(v) == [kind |-> "returned", value |-> v]

Threw(e) == [kind |-> "threw", error |-> e]

\* The handler answered without calling the ledger.
NotCalled == [kind |-> "notcalled"]

\* new Error(message)
Error(message) == [name |-> "Error", message |-> message]

\* The RangeError of toISOString on an invalid Date.
RangeError == [name |-> "RangeError", message |-> MsgInvalidTime]

\* The SqliteError of a statement that violates UNIQUE(date).
SqliteConstraintUnique ==
    [name |-> "SqliteError", code |-> "SQLITE_CONSTRAINT_UNIQUE",
     message |-> <<"U","N","I","Q","U","E">>]

\* `Date ${date} is already booked`
AlreadyBookedMessage(date) == MsgBookedPrefix \o date \o MsgBookedSuffix

\* The catch block rethrowing whatever it caught.
CatchInsertErrorRethrown(error, date) == error

\* The catch block inside createBooking's transaction.
CatchInsertError(error, date) ==
    IF error.name = "SqliteError" /\ error.code = "SQLITE_CONSTRAINT_UNIQUE"
    THEN Error(AlreadyBookedMessage(date))
    ELSE error

\* ------------------------------------------------------- HTTP handlers

NoHttp == [status |-> 0]

Json(status, body) == [status |-> status, body |-> body]

\* The catch block of app.post answering 500 with the error's own message.
PostResponseEchoing(result) ==
    IF result.kind = "returned" THEN Json(201, result.value)
    ELSE IF Includes(result.error.message, PatInvalidDate)
         THEN Json(400, [error |-> result.error.message])
    ELSE IF Includes(result.error.message, PatAlreadyBooked)
         THEN Json(409, [error |-> result.error.message])
    ELSE Json(500, [error |-> result.error.message])

\* app.post('/api/bookings'): the response for createBooking's outcome.
PostResponse(result) ==
    IF result.kind = "returned" THEN Json(201, result.value)
    ELSE IF Includes(result.error.message, PatInvalidDate)
         THEN Json(400, [error |-> result.error.message])
    ELSE IF Includes(result.error.message, PatAlreadyBooked)
         THEN Json(409, [error |-> result.error.message])
    ELSE Json(500, [error |-> MsgFailedCreate])

\* app.delete('/api/bookings/:date'): the response for deleteBooking's result.
DeleteResponse(deleted) ==
    IF ~deleted THEN Json(404, [error |-> MsgNotFound])
    ELSE [status |-> 204]

\* app.get('/api/bookings'): res.json(bookings)
GetResponse(bookings) == Json(200, [list |-> bookings])

\* --------------------------------------------------------- the callers

Free == {"idle", "returned", "threw"}

\* The requests a caller may be about to make: the one it was called with, or
\* any request when it is free to start a new call.
Pending(p, op, inputs) ==
    IF pc[p] = "called" THEN (IF req[p].op = op THEN {req[p].input} ELSE {})
    ELSE IF pc[p] \in Free THEN inputs
    ELSE {}

CreateBookingInputs ==
    {[date |-> date, employee_name |-> emp.employee_name,
      employee_email |-> emp.employee_email] :
        date \in PostDates, emp \in EmployeeInputs}


\* req.params of a DELETE
DeleteInputs == {[date |-> date] : date \in KeyDates}

InFlight == {"txn", "inserted", "selected"}

\* A call ends: its outcome and the handler's response reach the caller.
Finish(p, op, input, result, http) ==
    /\ pc' = [pc EXCEPT ![p] = IF result.kind = "threw" THEN "threw" ELSE "returned"]
    /\ req' = [req EXCEPT ![p] = NoReq]
    /\ booking' = [booking EXCEPT ![p] = NoBooking]
    /\ resp' = [op |-> op, input |-> input, result |-> result, http |-> http]
    /\ waited' = [waited EXCEPT ![p] = 0]

\* isValidDateFormat's verdict as createBooking acts on it.
ValidationOutcome(date) ==
    LET v == isValidDateFormat(date)
    IN IF v = "RangeError" THEN Threw(RangeError)
       ELSE IF v = "false" THEN Threw(Error(MsgInvalidDate))
       ELSE Returned(TRUE)

\* POST /api/bookings up to the start of createBooking's transaction: the
\* handler's `!date` test, then createBooking's validation.  No storage access.
\* A free caller starts a create only while ids below MaxId remain for every
\* create in flight.
PostBookingsOf(p, inputs) ==
    /\ \E input \in Pending(p, "POST", inputs) :
         LET date == input.date
             v == ValidationOutcome(date)
         IN IF date = EmptyString
            THEN /\ Finish(p, "POST", input, NotCalled,
                           Json(400, [error |-> MsgDateRequired]))
                 /\ UNCHANGED <<rows, seq, writer, wal>>
            ELSE IF v.kind = "threw"
            THEN /\ Finish(p, "POST", input, v, PostResponse(v))
                 /\ UNCHANGED <<rows, seq, writer, wal>>
            ELSE /\ \/ pc[p] = "called"
                    \/ seq + Cardinality({q \in Procs : pc[q] \in InFlight}) < MaxId
                 /\ pc' = [pc EXCEPT ![p] = "txn"]
                 /\ req' = [req EXCEPT ![p] = [op |-> "POST", input |-> input]]
                 /\ UNCHANGED <<rows, seq, writer, wal, booking, resp, waited>>

PostBookings(p) == PostBookingsOf(p, CreateBookingInputs)

\* statements.createBooking.run(...) inside the transaction.  The statement
\* needs the write lock; a UNIQUE violation aborts it, the catch block
\* translates the error and the transaction rolls back.
CreateInsert(p) ==
    /\ pc[p] = "txn"
    /\ writer = NoProc
    /\ LET input == req[p].input
       IN IF UniqueViolation(rows, input.date)
          THEN LET r == Threw(CatchInsertError(SqliteConstraintUnique, input.date))
               IN /\ Finish(p, "POST", input, r, PostResponse(r))
                  /\ UNCHANGED <<rows, seq, writer, wal>>
          ELSE /\ NextRowid(rows) <= MaxId
               /\ \E ts \in Timestamps : wal' = {NewRow(rows, input, ts)}
               /\ writer' = p
               /\ pc' = [pc EXCEPT ![p] = "inserted"]
               /\ waited' = [waited EXCEPT ![p] = 0]
               /\ UNCHANGED <<rows, seq, req, booking, resp>>

\* info.lastInsertRowid
lastInsertRowid == (CHOOSE r \in wal : TRUE).id

\* statements.getBookingById.get(info.lastInsertRowid), read inside the
\* transaction, which sees its own insert.
CreateSelect(p) ==
    /\ pc[p] = "inserted"
    /\ writer = p
    /\ booking' = [booking EXCEPT ![p] = getBookingById(rows \cup wal, lastInsertRowid)]
    /\ pc' = [pc EXCEPT ![p] = "selected"]
    /\ UNCHANGED <<rows, seq, writer, wal, req, resp, waited>>

\* The transaction commits, createBooking returns `booking`, the handler
\* answers 201.
CreateCommit(p) ==
    /\ pc[p] = "selected"
    /\ writer = p
    /\ rows' = rows \cup wal
    /\ seq' = MaxOf({r.id : r \in wal} \cup {seq})
    /\ wal' = {}
    /\ writer' = NoProc
    /\ LET r == Returned(booking[p])
       IN Finish(p, "POST", req[p].input, r, PostResponse(r))

\* DELETE /api/bookings/:date: deleteBooking is one autocommit statement.
DeleteBookings(p) ==
    /\ writer = NoProc
    /\ \E input \in Pending(p, "DELETE", DeleteInputs) :
         LET date == input.date
             deleted == Changes(rows, date) > 0
         IN /\ rows' = DeleteWhereDate(rows, date)
            /\ Finish(p, "DELETE", input, Returned(deleted),
                      DeleteResponse(deleted))
    /\ UNCHANGED <<seq, writer, wal>>

\* GET /api/bookings: getAllBookings reads the committed rows.
GetBookings(p) ==
    /\ pc[p] \in Free
    /\ LET bookings == getAllBookings(Snapshot)
       IN Finish(p, "GET", [date |-> EmptyString], Returned(bookings),
                 GetResponse(bookings))
    /\ UNCHANGED <<rows, seq, writer, wal>>

\* getBookingByDate(date), called on the ledger (no route uses it).
GetBookingByDate(p) ==
    /\ pc[p] \in Free
    /\ \E date \in KeyDates :
         Finish(p, "getBookingByDate", [date |-> date],
                Returned(getBookingByDate(Snapshot, date)), NoHttp)
    /\ UNCHANGED <<rows, seq, writer, wal>>

Init ==
    /\ rows = {}
    /\ seq = 0
    /\ writer = NoProc
    /\ wal = {}
    /\ pc = [p \in Procs |-> "idle"]
    /\ req = [p \in Procs |-> NoReq]
    /\ booking = [p \in Procs |-> NoBooking]
    /\ resp = [op |-> "none", input |-> [date |-> EmptyString],
               result |-> NotCalled, http |-> NoHttp]
    /\ waited = [p \in Procs |-> 0]

Next ==
    \E p \in Callers :
        \/ PostBookings(p)
        \/ CreateInsert(p)
        \/ CreateSelect(p)
        \/ CreateCommit(p)
        \/ DeleteBookings(p)
        \/ GetBookings(p)
        \/ GetBookingByDate(p)

Spec == Init /\ [][Next]_vars

\* ------------------------------------------------------------ the race

\* The race of the concurrency test: two or more callers have each been called
\* with createBooking for the same valid, unbooked date and pairwise distinct
\* employee fields; nothing else runs.
InitRace ==
    /\ rows = {}
    /\ seq = 0
    /\ writer = NoProc
    /\ wal = {}
    /\ booking = [p \in Procs |-> NoBooking]
    /\ resp = [op |-> "none", input |-> [date |-> EmptyString],
               result |-> NotCalled, http |-> NoHttp]
    /\ waited = [p \in Procs |-> 0]
    /\ \E racers \in SUBSET Procs, date \in ValidDates :
         \E emp \in [racers -> RaceEmployeeInputs] :
           /\ Cardinality(racers) >= 2
           /\ \A p, q \in racers : p # q => emp[p] # emp[q]
           /\ pc = [p \in Procs |-> IF p \in racers THEN "called" ELSE "idle"]
           /\ req = [p \in Procs |->
                       IF p \in racers
                       THEN [op |-> "POST",
                             input |-> [date |-> date,
                                        employee_name |-> emp[p].employee_name,
                                        employee_email |-> emp[p].employee_email]]
                       ELSE NoReq]

NextRace ==
    \E p \in Procs :
        \/ pc[p] = "called" /\ PostBookings(p)
        \/ CreateInsert(p)
        \/ CreateSelect(p)
        \/ CreateCommit(p)

SpecRace == InitRace /\ [][NextRace]_vars

\* ------------------------------------------- locked and failing storage

\* The SqliteError of a statement that found the database locked for the
\* whole busy timeout.
SqliteBusy ==
    [name |-> "SqliteError", code |-> "SQLITE_BUSY",
     message |-> <<"d","a","t","a","b","a","s","e"," ","i","s"," ",
                   "l","o","c","k","e","d">>]

\* The SqliteError of a statement or a COMMIT that the disk failed.
SqliteIoErr ==
    [name |-> "SqliteError", code |-> "SQLITE_IOERR",
     message |-> <<"d","i","s","k"," ","I","/","O"," ","e","r","r","o","r">>]

MsgFailedDelete ==
    <<"F","a","i","l","e","d"," ","t","o"," ","d","e","l","e","t","e"," ",
      "b","o","o","k","i","n","g">>

\* app.delete('/api/bookings/:date'): the catch block's response.
DeleteFailedResponse == Json(500, [error |-> MsgFailedDelete])

\* The statement of caller p that needs the write lock has not run yet:
\* createBooking's INSERT, or deleteBooking's DELETE.
AtWriteStatement(p) ==
    \/ pc[p] = "txn"
    \/ pc[p] = "called" /\ req[p].op = "DELETE"

\* DELETE /api/bookings/:date arrives while another connection holds the
\* write lock: deleteBooking's statement cannot run yet.
DeleteCalled(p) ==
    /\ pc[p] \in Free
    /\ writer # NoProc
    /\ \E input \in DeleteInputs :
         req' = [req EXCEPT ![p] = [op |-> "DELETE", input |-> input]]
    /\ pc' = [pc EXCEPT ![p] = "called"]
    /\ UNCHANGED <<rows, seq, writer, wal, booking, resp, waited>>

\* A busy handler that sleeps without counting: it never gives up.
BusyTimeoutNever(p) == FALSE

\* The busy timeout is used up.
BusyTimeoutOver(p) == waited[p] = BusyTimeout

\* The busy handler: the database is locked and the timeout is not used up,
\* so the statement sleeps and will try again.
BusyWait(p) ==
    /\ AtWriteStatement(p)
    /\ writer # NoProc
    /\ ~BusyTimeoutOver(p)
    /\ waited' = [waited EXCEPT ![p] = waited[p] + 1]
    /\ UNCHANGED <<rows, seq, writer, wal, pc, req, booking, resp>>

\* createBooking's INSERT gives up with SQLITE_BUSY: the catch block sees an
\* error that is not the UNIQUE violation, the transaction rolls back.
CreateBusy(p) ==
    /\ pc[p] = "txn"
    /\ writer # NoProc
    /\ BusyTimeoutOver(p)
    /\ LET input == req[p].input
           r == Threw(CatchInsertError(SqliteBusy, input.date))
       IN Finish(p, "POST", input, r, PostResponse(r))
    /\ UNCHANGED <<rows, seq, writer, wal>>

\* deleteBooking's DELETE gives up with SQLITE_BUSY; deleteBooking has no
\* catch block, the handler answers 500.
DeleteBusy(p) ==
    /\ pc[p] = "called"
    /\ req[p].op = "DELETE"
    /\ writer # NoProc
    /\ BusyTimeoutOver(p)
    /\ Finish(p, "DELETE", req[p].input, Threw(SqliteBusy), DeleteFailedResponse)
    /\ UNCHANGED <<rows, seq, writer, wal>>

\* The disk fails createBooking after its INSERT: at the SELECT, inside the
\* try block, or at the COMMIT, outside it.  The transaction rolls back and
\* releases the write lock.
CreateStorageError(p) ==
    /\ pc[p] \in {"inserted", "selected"}
    /\ writer = p
    /\ wal' = {}
    /\ writer' = NoProc
    /\ LET input == req[p].input
           r == Threw(IF pc[p] = "inserted"
                      THEN CatchInsertError(SqliteIoErr, input.date)
                      ELSE SqliteIoErr)
       IN Finish(p, "POST", input, r, PostResponse(r))
    /\ UNCHANGED <<rows, seq>>

\* The requests of the callers while the storage may be locked or failing:
\* Ann's, for two bookable dates and for month 13.
FaultCreateInputs ==
    {input \in CreateBookingInputs :
        /\ input.employee_name = "Ann"
        /\ input.date \in {D20251209, D20251210,
                            <<"2","0","2","5","-","1","3","-","0","1">>}}

PostBookingsFaults(p) == PostBookingsOf(p, FaultCreateInputs)

NextFaults ==
    \E p \in Callers :
        \/ PostBookingsFaults(p)
        \/ CreateInsert(p)
        \/ CreateSelect(p)
        \/ CreateCommit(p)
        \/ DeleteBookings(p)
        \/ GetBookings(p)
        \/ GetBookingByDate(p)
        \/ DeleteCalled(p)
        \/ BusyWait(p)
        \/ CreateBusy(p)
        \/ DeleteBusy(p)
        \/ CreateStorageError(p)

SpecFaults == Init /\ [][NextFaults]_vars

\* A call that has started runs on: every function of database.ts is
\* synchronous, and the busy handler's sleeps are timed.  Whether the disk
\* fails is the environment's choice and is not forced.
RunToCompletion(p) ==
    \/ CreateInsert(p)
    \/ CreateSelect(p)
    \/ CreateCommit(p)
    \/ pc[p] = "called" /\ DeleteBookings(p)
    \/ BusyWait(p)
    \/ CreateBusy(p)
    \/ DeleteBusy(p)

SpecLive ==
    /\ Init
    /\ [][NextFaults]_vars
    /\ \A p \in Callers : WF_vars(RunToCompletion(p))

\* =========================================================== properties

\* ---------------------------------------------------------------- C1
\* C1: in every reachable state, for every date d the committed table holds
\* at most one booking whose date is d.
AtMostOneBookingPerDate ==
    \A r1, r2 \in rows : r1.date = r2.date => r1 = r2

\* A create for a date is in flight while a booking for that date is live.
WitnessSecondCreateInFlight ==
    \E p \in Callers :
        /\ pc[p] = "txn"
        /\ \E r \in rows : r.date = req[p].input.date

\* ---------------------------------------------------------------- C2
\* C2: when N >= 2 createBooking calls for the same valid, unbooked date run
\* concurrently with distinct employee fields, then under every interleaving
\* no call fails with anything but 'Date <date> is already booked' (answered
\* 409), and once all have ended exactly one has returned a booking, the other
\* N-1 have failed, and the table holds one row ...
RaceOutcome ==
    LET racers == {p \in Procs : pc[p] # "idle"}
        returned == {p \in Procs : pc[p] = "returned"}
        threw == {p \in Procs : pc[p] = "threw"}
    IN /\ Cardinality(returned) <= 1
       /\ resp.result.kind = "threw" =>
            /\ resp.result.error = Error(AlreadyBookedMessage(resp.input.date))
            /\ resp.http = Json(409, [error |-> AlreadyBookedMessage(resp.input.date)])
       /\ racers = returned \cup threw =>
            /\ Cardinality(returned) = 1
            /\ Cardinality(threw) = Cardinality(racers) - 1
            /\ Cardinality(rows) = 1

\* ... and that row is written once, by the call that returns, with the date
\* and the employee fields of that call.
RaceRowIsTheWinners ==
    rows' # rows =>
        \E p \in Procs :
            /\ pc'[p] = "returned"
            /\ resp'.result = Returned(CHOOSE r \in rows' : TRUE)
            /\ rows = {}
            /\ \E r \in rows' :
                 /\ rows' = {r}
                 /\ r.date = req[p].input.date
                 /\ r.employee_name = req[p].input.employee_name
                 /\ r.employee_email = Null

ExactlyOneWinner == []RaceOutcome /\ [][RaceRowIsTheWinners]_vars

\* Three callers raced: one has returned and two have failed.
WitnessRaceOfThreeOver ==
    /\ Cardinality({p \in Procs : pc[p] = "returned"}) = 1
    /\ Cardinality({p \in Procs : pc[p] = "threw"}) = 2
    /\ Cardinality(rows) = 1

\* ------------------------------------------------- reading the last call

\* The step ended a call of `op`: the last outcome is of `op` and no caller
\* moved inside a createBooking transaction.
Ended(op) ==
    /\ resp'.op = op
    /\ \A p \in Procs : pc'[p] \in {"txn", "inserted", "selected"} => pc'[p] = pc[p]
    /\ \A p \in Procs : pc[p] \in {"txn", "inserted", "selected"} => pc'[p] = pc[p]

\* createBooking was called and has failed / has returned.
CreateFailed == resp.op = "POST" /\ resp.result.kind = "threw"

CreateReturned == resp.op = "POST" /\ resp.result.kind = "returned"

\* ---------------------------------------------------------------- C3
\* The calendar, stated directly: month lengths and leap years.
IsLeapYear(y) == (y % 4 = 0 /\ y % 100 # 0) \/ y % 400 = 0

DaysInMonth(y, m) ==
    IF m = 2 THEN (IF IsLeapYear(y) THEN 29 ELSE 28)
    ELSE IF m \in {4, 6, 9, 11} THEN 30 ELSE 31

\* `date` is 4 digits, '-', 2 digits, '-', 2 digits and names a real day.
IsCalendarDate(date) ==
    /\ Len(date) = 10
    /\ \A i \in 1..10 : IF i \in {5, 8} THEN date[i] = "-" ELSE IsDigit(date[i])
    /\ LET y == NumberOf(SubSeq(date, 1, 4))
           m == NumberOf(SubSeq(date, 6, 7))
           d == NumberOf(SubSeq(date, 9, 10))
       IN m \in 1..12 /\ d \in 1..DaysInMonth(y, m)

\* C3: whenever createBooking has been called with a date that is not a
\* calendar date in YYYY-MM-DD form, it has failed with the error 'Date must
\* be in YYYY-MM-DD format' (and, the transaction never having started, the
\* table is as it was).
InvalidDateRejectedWithInvalidDate ==
    (resp.op = "POST" /\ resp.result.kind # "notcalled"
        /\ ~IsCalendarDate(resp.input.date))
    => resp.result = Threw(Error(MsgInvalidDate))

\* ---------------------------------------------------------------- C4
\* C4: a POST /api/bookings whose date the ledger rejected as InvalidDate is
\* answered 400 {error: "Date must be in YYYY-MM-DD format"}.
InvalidDateAnswered400 ==
    (resp.op = "POST" /\ resp.result = Threw(Error(MsgInvalidDate)))
    => resp.http = Json(400, [error |-> MsgInvalidDate])

\* ---------------------------------------------------------------- C5
\* C5: a createBooking whose insert runs while a booking for its (valid) date
\* is live fails with the error 'Date <date> is already booked', POST answers
\* it 409 with that message, and the table (the existing booking's id and
\* employee fields included) and the id counter are left as they were.
AlreadyBookedStep ==
    \A p \in Procs :
        (/\ pc[p] = "txn"
         /\ pc'[p] # "txn"
         /\ \E r \in rows : r.date = req[p].input.date)
        => /\ pc'[p] = "threw"
           /\ resp'.op = "POST"
           /\ resp'.input = req[p].input
           /\ resp'.result =
                Threw(Error(<<"D","a","t","e"," ">> \o req[p].input.date
                            \o <<" ","i","s"," ","a","l","r","e","a","d","y"," ","b","o","o","k","e","d">>))
           /\ resp'.http = Json(409, [error |-> resp'.result.error.message])
           /\ rows' = rows
           /\ seq' = seq
           /\ wal' = wal

DoubleBookingRejected == [][AlreadyBookedStep]_vars

\* A create was answered 409 and the booking that holds its date, made with
\* other employee fields, is still there.
WitnessDoubleBookingRejected ==
    /\ CreateFailed
    /\ resp.http.status = 409
    /\ \E r \in rows :
         /\ r.date = resp.input.date
         /\ r.employee_name = "Ann"
         /\ resp.input.employee_name # "Ann"

\* ---------------------------------------------------------------- C6
\* C6: deleteBooking(d) returns true exactly when a booking for d was live,
\* and then removes that booking and no other; otherwise it returns false and
\* the table is unchanged; either way no booking for d is live afterwards, so
\* a second call returns false.  DELETE answers 204 for true and 404
\* {error: "Booking not found"} for false.
DeleteStep ==
    Ended("DELETE") =>
        LET d == resp'.input.date
            existed == \E r \in rows : r.date = d
        IN /\ resp'.result = Returned(existed)
           /\ rows' = {r \in rows : r.date # d}
           /\ ~ \E r \in rows' : r.date = d
           /\ existed => resp'.http = [status |-> 204]
           /\ ~existed => /\ rows' = rows
                          /\ resp'.http = Json(404, [error |-> MsgNotFound])

DeleteReportsRemoval == [][DeleteStep]_vars

\* A delete returned true and another booking is still live.
WitnessDeleteReturnedTrue ==
    /\ resp.op = "DELETE"
    /\ resp.result = Returned(TRUE)
    /\ rows # {}

\* ---------------------------------------------------------------- C7
\* The day a valid date string names, as a number that orders by calendar.
DayKey(date) ==
    NumberOf(SubSeq(date, 1, 4)) * 10000 + NumberOf(SubSeq(date, 6, 7)) * 100
        + NumberOf(SubSeq(date, 9, 10))

\* C7: getAllBookings returns exactly the live bookings, each once, earlier
\* dates first whatever the order of creation (the empty sequence when there
\* are none), GET answers 200 with that list, and the table is unchanged.
GetAllStep ==
    Ended("GET") =>
        LET list == resp'.result.value
        IN /\ rows' = rows
           /\ Len(list) = Cardinality(rows)
           /\ {list[i] : i \in 1..Len(list)} = rows
           /\ \A i, j \in 1..Len(list) :
                i < j => DayKey(list[i].date) < DayKey(list[j].date)
           /\ resp'.http = Json(200, [list |-> list])

ListIsLiveBookingsByDate == [][GetAllStep]_vars

\* A list was returned whose first booking was created after its second.
WitnessListedAgainstCreationOrder ==
    /\ resp.op = "GET"
    /\ Len(resp.result.value) >= 2
    /\ resp.result.value[1].id > resp.result.value[2].id

\* ---------------------------------------------------------------- C8
\* C8: right after a createBooking has returned a booking for date d,
\* getBookingByDate(d) gives that booking unchanged; right after
\* deleteBooking(d), getBookingByDate(d) gives nothing and getAllBookings
\* holds no booking for d.
RoundTrip ==
    /\ CreateReturned =>
         /\ resp.result.value.date = resp.input.date
         /\ getBookingByDate(rows, resp.input.date)
              = [found |-> TRUE, row |-> resp.result.value]
    /\ resp.op = "DELETE" =>
         /\ getBookingByDate(rows, resp.input.date) = [found |-> FALSE]
         /\ LET list == getAllBookings(rows)
            IN \A i \in 1..Len(list) : list[i].date # resp.input.date

\* A booking has just been returned while another one is live.
WitnessCreatedBesideAnother ==
    /\ CreateReturned
    /\ Cardinality(rows) >= 2

\* ---------------------------------------------------------------- C9
\* C9 as claimed: the returned and stored record has the input's date, each
\* employee field equal to the supplied string whenever a string was supplied,
\* and null for each field that was omitted.
StoredFieldsAsSupplied ==
    CreateReturned =>
        LET b == resp.result.value
        IN /\ b \in rows
           /\ b.date = resp.input.date
           /\ b.employee_name =
                (IF resp.input.employee_name = Undefined THEN Null
                 ELSE resp.input.employee_name)
           /\ b.employee_email =
                (IF resp.input.employee_email = Undefined THEN Null
                 ELSE resp.input.employee_email)

\* C9 as amended: the returned and stored record has the input's date, each
\* employee field equal to the supplied string whenever a non-empty string
\* was supplied, and null (never the empty string) for each field that was
\* omitted or supplied as the empty string.
StoredFieldsNonEmptyOrNull ==
    CreateReturned =>
        LET b == resp.result.value
        IN /\ b \in rows
           /\ b.date = resp.input.date
           /\ b.employee_name =
                (IF resp.input.employee_name \in {Undefined, ""} THEN Null
                 ELSE resp.input.employee_name)
           /\ b.employee_email =
                (IF resp.input.employee_email \in {Undefined, ""} THEN Null
                 ELSE resp.input.employee_email)
           /\ b.employee_name # "" /\ b.employee_email # ""

\* A booking was created from an empty name and an omitted email.
WitnessEmptyNameStoredNull ==
    /\ CreateReturned
    /\ resp.input.employee_name = ""
    /\ resp.input.employee_email = Undefined
    /\ resp.result.value.employee_name = Null

\* ---------------------------------------------------------------- C10
\* C10: every id ever assigned is at most the id counter, the counter never
\* goes down, and each successful createBooking stores one new row whose id
\* is above the counter (so above every id assigned before, deleted or not)
\* and moves the counter to it; live ids are pairwise distinct.
IdsBelowCounter ==
    /\ \A r \in rows : r.id <= seq
    /\ \A r1, r2 \in rows : r1.id = r2.id => r1 = r2

NewIdAboveCounter ==
    /\ seq' >= seq
    /\ \A r \in rows' \ rows :
         /\ r.id > seq
         /\ seq' = r.id
         /\ rows' = rows \cup {r}
         /\ resp'.result = Returned(r)

IdsNeverReused == []IdsBelowCounter /\ [][NewIdAboveCounter]_vars

\* The first booking was deleted and the booking created next, now the only
\* one, has id 2.
WitnessIdAfterDelete ==
    /\ CreateReturned
    /\ rows = {resp.result.value}
    /\ resp.result.value.id = 2

\* ---------------------------------------------------------------- C11
\* The dates that have a live booking in `table`.
LiveDates(table) == {r.date : r \in table}

\* C11: in every step, a booking that is live before and after keeps its id,
\* date, employee_name, employee_email and created_at; the table changes only
\* when the set of live dates changes; and the set of live dates changes only
\* in a step that ends a createBooking(d) with a returned booking, which adds
\* exactly d and that booking, or a deleteBooking(d) with true, which removes
\* exactly the booking of d.  The bookings of every other date are untouched.
FrameStep ==
    /\ \A r \in rows, r2 \in rows' :
         (r.date = r2.date \/ r.id = r2.id) => r = r2
    /\ rows' # rows => LiveDates(rows') # LiveDates(rows)
    /\ LiveDates(rows') # LiveDates(rows) =>
         LET d == resp'.input.date
         IN \/ /\ resp'.op = "POST"
               /\ resp'.result.kind = "returned"
               /\ d \notin LiveDates(rows)
               /\ LiveDates(rows') = LiveDates(rows) \cup {d}
               /\ rows' = rows \cup {resp'.result.value}
               /\ resp'.result.value.date = d
            \/ /\ resp'.op = "DELETE"
               /\ resp'.result = Returned(TRUE)
               /\ d \in LiveDates(rows)
               /\ LiveDates(rows') = LiveDates(rows) \ {d}
               /\ rows' = {r \in rows : r.date # d}

LiveDatesChangeOnlyByCreateOrDelete == [][FrameStep]_vars

\* A delete has removed the booking of its date while Ann's booking of
\* another date stays live.
WitnessDeletedBesideAnnsBooking ==
    /\ resp.op = "DELETE"
    /\ resp.result = Returned(TRUE)
    /\ \E r \in rows : r.date # resp.input.date /\ r.employee_name = "Ann"

\* ---------------------------------------------------------------- C12
\* The step is caller p's read `op`: p was free and has returned, the last
\* outcome is of `op`, and nothing else about the callers moved.
ReadBy(p, op) ==
    /\ pc[p] \in Free
    /\ pc'[p] = "returned"
    /\ resp'.op = op
    /\ \A q \in Procs \ {p} : pc'[q] = pc[q]
    /\ req' = req
    /\ waited' = waited

\* A booking with its id, date, both employee fields and created_at set.
IsWholeBooking(b) ==
    /\ DOMAIN b = {"id", "date", "employee_name", "employee_email", "created_at"}
    /\ b.id >= 1
    /\ b.date \in ValidDates
    /\ b.employee_name # Undefined
    /\ b.employee_email # Undefined
    /\ b.created_at \in Timestamps

\* The row of an open write transaction is in no committed state.
UncommittedIsApart == \A w \in wal : w \notin rows /\ w.date \notin LiveDates(rows)

\* C12: a getAllBookings or getBookingByDate that runs while a create or a
\* delete of another caller is under way returns the committed table as it is
\* at that moment (every write wholly in it or wholly out of it): all of its
\* bookings, or the one of the date asked for, each whole, and none of them
\* the row of an open transaction; the read changes nothing.  A create that
\* fails leaves the committed table as it was, its row never having been in
\* it.
ReadStep ==
    /\ \A p \in Procs :
         ReadBy(p, "GET") =>
            LET list == resp'.result.value
                got == {list[i] : i \in 1..Len(list)}
            IN /\ got = rows
               /\ Len(list) = Cardinality(rows)
               /\ \A b \in got : IsWholeBooking(b) /\ b \notin wal
               /\ UNCHANGED <<rows, seq, wal, writer>>
    /\ \A p \in Procs :
         ReadBy(p, "getBookingByDate") =>
            LET hit == resp'.result.value
                d == resp'.input.date
            IN /\ hit.found <=> d \in LiveDates(rows)
               /\ hit.found =>
                    /\ hit.row \in rows
                    /\ hit.row.date = d
                    /\ IsWholeBooking(hit.row)
                    /\ hit.row \notin wal
               /\ UNCHANGED <<rows, seq, wal, writer>>
    /\ \A p \in Procs :
         (pc[p] \in {"txn", "inserted", "selected"} /\ pc'[p] = "threw") =>
            /\ rows' = rows
            /\ seq' = seq
            /\ pc[p] # "txn" => wal' = {} /\ \A w \in wal : w \notin rows'

ReadsSeeCommittedState == []UncommittedIsApart /\ [][ReadStep]_vars

\* A list of the live bookings has been returned while another caller's
\* transaction holds an inserted row that is not committed.
WitnessListedDuringOpenTransaction ==
    /\ resp.op = "GET"
    /\ Len(resp.result.value) >= 1
    /\ wal # {}
    /\ \E p \in Callers : pc[p] \in {"inserted", "selected"}

\* ---------------------------------------------------------------- C13
\* Two texts share a word of at least four characters.
SharesText(a, b) ==
    \E i \in 1..(Len(a) - 3) : Includes(b, SubSeq(a, i, i + 3))

\* createBooking has failed with something other than InvalidDate and
\* DateAlreadyBooked.
OtherCreateFailure ==
    /\ CreateFailed
    /\ resp.result.error # Error(MsgInvalidDate)
    /\ resp.result.error # Error(AlreadyBookedMessage(resp.input.date))

\* C13, the answer: such a failure is answered 500 with the body
\* {error: 'Failed to create booking'}, which shares no text with the error.
OtherFailureAnswered ==
    OtherCreateFailure =>
        /\ resp.http =
             Json(500, [error |-> <<"F","a","i","l","e","d"," ","t","o"," ",
                                    "c","r","e","a","t","e"," ",
                                    "b","o","o","k","i","n","g">>])
        /\ ~SharesText(resp.result.error.message, resp.http.body.error)

\* C13, the propagation: the error the caller gets is the error as it was
\* raised, its name, code and message untouched: SQLITE_BUSY from an INSERT
\* that found the database locked for the whole timeout, the disk error from
\* the SELECT or the COMMIT, the RangeError from the validation (raised
\* before the transaction starts).
OtherFailureStep ==
    \A p \in Procs :
        /\ (pc[p] = "txn" /\ pc'[p] = "threw" /\ writer # NoProc) =>
              resp'.result = Threw(SqliteBusy)
        /\ (pc[p] \in {"inserted", "selected"} /\ pc'[p] = "threw") =>
              resp'.result = Threw(SqliteIoErr)
        /\ (pc[p] \in Free /\ pc'[p] = "threw" /\ resp'.op = "POST"
                /\ (\A q \in Procs \ {p} : pc'[q] = pc[q])
                /\ resp'.result.error # Error(MsgInvalidDate)) =>
              /\ UNCHANGED <<rows, seq, wal, writer>>
              /\ resp'.result =
                   Threw([name |-> "RangeError",
                          message |-> <<"I","n","v","a","l","i","d"," ",
                                        "t","i","m","e"," ","v","a","l","u","e">>])

OtherFailuresPropagateAnswered500 ==
    []OtherFailureAnswered /\ [][OtherFailureStep]_vars

\* A create gave up on a locked database and was answered 500.
WitnessBusyCreateAnswered500 ==
    /\ OtherCreateFailure
    /\ resp.result.error.name = "SqliteError"
    /\ resp.result.error.code = "SQLITE_BUSY"
    /\ resp.http.status = 500

\* ---------------------------------------------------------------- C14
\* No sleep beyond the busy timeout, and a caller that is not inside a call
\* has no request left over to run again.
WaitIsBounded ==
    \A p \in Procs :
        /\ waited[p] <= BusyTimeout
        /\ pc[p] \in Free => req[p] = NoReq /\ waited[p] = 0

\* A write statement that has slept the whole timeout and still finds the
\* database locked does not sleep again: the call ends with SQLITE_BUSY and
\* has changed nothing.  The step in which a create fails leaves the caller
\* outside the call, with no request to run again.
GiveUpStep ==
    \A p \in Procs :
        /\ (AtWriteStatement(p) /\ writer # NoProc /\ waited[p] = BusyTimeout
                /\ <<pc[p], waited[p]>> # <<pc'[p], waited'[p]>>) =>
              /\ pc'[p] = "threw"
              /\ resp'.result = Threw(SqliteBusy)
              /\ resp'.input = req[p].input
              /\ UNCHANGED <<rows, seq, wal, writer>>
        /\ (pc[p] \in {"txn", "inserted", "selected"} /\ pc'[p] = "threw") =>
              /\ req'[p] = NoReq
              /\ rows' = rows

\* Every call that has started ends, with a result or with a failure.
EveryCallEnds ==
    \A p \in Callers : (pc[p] \notin Free) ~> (pc[p] \in Free)

\* C14: every createBooking, deleteBooking, getAllBookings and
\* getBookingByDate call ends with a result or a failure (reads and rejected
\* inputs in the step that calls them); a write that finds the database
\* locked sleeps at most BusyTimeout times and then fails with SQLITE_BUSY;
\* a failed create leaves nothing to be run again.
CallsEndWithinBusyTimeout ==
    []WaitIsBounded /\ [][GiveUpStep]_vars /\ EveryCallEnds

\* A delete has slept the whole busy timeout, given up, and been answered 500
\* while the other caller's transaction is still open.
WitnessDeleteGaveUp ==
    /\ resp.op = "DELETE"
    /\ resp.result.kind = "threw"
    /\ resp.http.status = 500
    /\ writer # NoProc

====
